---- MODULE Spec2Model ----
(***************************************************************************)
(* Model of src/TCLab_Demo_PI.py: run_pi_controller, the discrete-time PI  *)
(* loop with its anti-windup correction and its try/except/finally         *)
(* shutdown of the TCLab device (Spec, SpecLong), the console entry of its *)
(* __main__ block (SpecMain), and of src/tclab_led_test.py (SpecLed).      *)
(*                                                                         *)
(* Python floats are modelled as integers rounded to Precision significant *)
(* bits with round-to-nearest, ties-to-even, after every arithmetic        *)
(* operation (IEEE-754 binary arithmetic at a reduced mantissa width).     *)
(***************************************************************************)
EXTENDS Integers, Sequences, FiniteSets, TLC

\* ---------------------------------------------------------------- bounds
\* Significant bits kept by one float operation (53 in the program).
Precision == 6
\* Largest duration (seconds) passed to run_pi_controller.
MaxDuration == 6

\* Duration (seconds) of the long run, which has more cycles than Window.
LongDuration == 22

\* Values the inputs are drawn from.
Setpoints == {30, 60}
ProportionalGains == {0, 2, 50}
IntegralGains == {0, 1}
Readings == {20, 25, 35}
\* Time one cycle spends on reading, computing and drawing, in ticks.
WorkTicks == {2, 45}

\* ------------------------------------------------------ program constants
\* OP_bias = 0.0
OP_bias == 0
\* delta_t = 2.0
delta_t == 2
\* np.clip(OP, 0.0, 100.0)
Q_min == 0
Q_max == 100
\* the literal 0.05 (seconds) is one tick of the clock
TicksPerSecond == 20
\* plt.pause(0.05)
PauseTicks == 1
\* np.mean(T1[-10:])
Window == 10

\* ------------------------------------------------------- float arithmetic
Abs(x) == IF x < 0 THEN -x ELSE x

RECURSIVE Ulp(_)
\* Spacing of the representable values around magnitude m.
Ulp(m) == IF m < 2^Precision THEN 1 ELSE 2 * Ulp(m \div 2)

\* Round-to-nearest, ties-to-even, of an exact result.
RoundNearestEven(x) ==
    LET m   == Abs(x)
        q   == Ulp(m)
        lo  == (m \div q) * q
        rem == m - lo
        r   == IF 2 * rem < q THEN lo
               ELSE IF 2 * rem > q THEN lo + q
               ELSE IF (lo \div q) % 2 = 0 THEN lo ELSE lo + q
    IN  IF x < 0 THEN -r ELSE r

FAdd(a, b) == RoundNearestEven(a + b)
FSub(a, b) == RoundNearestEven(a - b)
FMul(a, b) == RoundNearestEven(a * b)

\* ------------------------------------------------------ the control law
NumCyclesCeil(d) == (d + delta_t - 1) \div delta_t
\* n = int(duration / delta_t)
NumCycles(d) == d \div delta_t

ClipNoUpper(x, lo, hi) == IF x < lo THEN lo ELSE x
\* np.clip(OP, 0.0, 100.0)
Clip(x, lo, hi) == IF x < lo THEN lo ELSE IF x > hi THEN hi ELSE x

\* error = T_sp - T1[i]
Error(sp, measured) == FSub(sp, measured)

CandidateNoPeriod(ie, e) == FAdd(ie, e)
\* integral_error += error * delta_t
Candidate(ie, e) == FAdd(ie, FMul(e, delta_t))

ControllerOutputStale(kp, ki, e, ie) ==
    FAdd(FAdd(OP_bias, FMul(kp, e)), FMul(ki, ie))
\* P_term, I_term, OP: the integral term uses the already updated integral
ControllerOutput(kp, ki, e, ie) ==
    FAdd(FAdd(OP_bias, FMul(kp, e)), FMul(ki, Candidate(ie, e)))

\* if not (0.0 < Q1[i] < 100.0): integral_error -= error * delta_t
AntiWindup(q, cand, e) ==
    IF ~(Q_min < q /\ q < Q_max) THEN FSub(cand, FMul(e, delta_t)) ELSE cand

\* time.sleep(delta_t - 0.05)
SleepRequest == delta_t * TicksPerSecond - PauseTicks

WholeArray(len) == 0 .. len - 1
\* the indices selected by T1[-10:]
LastWindow(len) == {k \in 0 .. len - 1 : k >= len - Window}

RECURSIVE SumOver(_, _)
SumOver(f, S) ==
    IF S = {} THEN 0
    ELSE LET k == CHOOSE x \in S : TRUE IN f[k] + SumOver(f, S \ {k})

\* steadystate_error = T_sp - np.mean(T1[-10:]), kept as the exact fraction
\* num / den (np.mean is the arithmetic mean of the selected entries)
SteadyStateError(sp, arr, len) ==
    LET W == LastWindow(len) IN
    [set |-> TRUE,
     num |-> Cardinality(W) * sp - SumOver(arr, W),
     den |-> Cardinality(W)]

\* ---------------------------------------------------------------- state
VARIABLES
    pc,              \* position in run_pi_controller
    duration, T_sp, Kp, Ki,      \* the arguments
    n,               \* number of cycles
    i,               \* loop index
    t, T1, T_sp_array, Q1,       \* the logged arrays
    integral_error,
    integral_before, \* integral_error at the start of the current cycle
    lab,             \* "None" or "TCLab"
    pending,         \* exception in flight: "none", "Exception", "KeyboardInterrupt"
    events,          \* device calls and console reports, in order
    sensor,          \* the temperatures the device can report in this run
    workload,        \* the times (ticks) a cycle's work can take in this run
    timing,          \* work, requested sleep and length of the last cycle
    steadystate_error,
    entered,         \* console: the prompt last answered and the answer
    accepted,        \* console: the prompts answered with an accepted value
    calls,           \* console: number of calls of run_pi_controller
    frozen,          \* LED test: getattr(sys, 'frozen', False)
    slept            \* LED test: ticks of time.sleep(10.0) elapsed

vars == <<pc, duration, T_sp, Kp, Ki, n, i, t, T1, T_sp_array, Q1,
          integral_error, integral_before, lab, pending, events,
          sensor, workload, timing, steadystate_error, entered, accepted,
          calls, frozen, slept>>

env == <<sensor, workload>>
metrics == <<timing, steadystate_error>>
outside == <<entered, accepted, calls, frozen, slept>>

NoTiming == [set |-> FALSE, work |-> 0, sleep |-> 0, period |-> 0]
NoSteadyState == [set |-> FALSE, num |-> 0, den |-> 0]
NoEntry == [prompt |-> "none", kind |-> "none", a |-> 0, b |-> 0]

params == <<duration, T_sp, Kp, Ki, n>>
arrays == <<t, T1, T_sp_array, Q1>>

\* One entry of the event log: op at source line `at`, in cycle cyc (-1
\* outside the loop), with argument arg; ok is FALSE when the call raised.
Event(op, at, cyc, arg, ok) ==
    [op |-> op, at |-> at, cyc |-> cyc, arg |-> arg, ok |-> ok]

\* np.zeros(n)
Zeros(len) == [k \in 0 .. len - 1 |-> 0]

Init ==
    /\ duration \in 1 .. MaxDuration
    /\ T_sp \in Setpoints
    /\ Kp \in ProportionalGains
    /\ Ki \in IntegralGains
    /\ n = NumCycles(duration)
    /\ t = Zeros(n)
    /\ T1 = Zeros(n)
    /\ T_sp_array = Zeros(n)
    /\ Q1 = Zeros(n)
    /\ integral_error = 0
    /\ integral_before = 0
    /\ i = 0
    /\ lab = "None"
    /\ pending = "none"
    /\ events = << >>
    /\ sensor = Readings
    /\ workload = WorkTicks
    /\ timing = NoTiming
    /\ steadystate_error = NoSteadyState
    /\ entered = NoEntry
    /\ accepted = << >>
    /\ calls = 0
    /\ frozen = FALSE
    /\ slept = 0
    /\ pc = "connect"

ExceptTargetSkipsFinally == "done"
\* a raised Exception is handled by `except Exception`, then `finally` runs
ExceptTarget == "finally"

InterruptTargetSkipsFinally == "done"
\* a KeyboardInterrupt is not an Exception: control goes to `finally`
InterruptTarget == "finally"

LabIsNotNoneAlways(l) == TRUE
\* if lab is not None:
LabIsNotNone(l) == l # "None"

\* A device call at line `at`: it returns (pc becomes next) or raises.
DeviceCall(op, at, cyc, arg, next) ==
    \E ok \in BOOLEAN :
        /\ events' = Append(events, Event(op, at, cyc, arg, ok))
        /\ IF ok THEN pc' = next /\ pending' = pending
                 ELSE pc' = "except" /\ pending' = "Exception"

\* lab = tclab.TCLab()
Connect ==
    /\ pc = "connect"
    /\ \E ok \in BOOLEAN :
        /\ events' = Append(events, Event("connect", 63, -1, 0, ok))
        /\ IF ok THEN lab' = "TCLab" /\ pc' = "init_Q1" /\ pending' = pending
                 ELSE lab' = lab /\ pc' = "except" /\ pending' = "Exception"
    /\ UNCHANGED <<env, outside, metrics, params,
                   arrays, i, integral_error, integral_before>>

\* lab.Q1(0)
InitQ1 ==
    /\ pc = "init_Q1"
    /\ DeviceCall("Q1", 66, -1, 0, "init_Q2")
    /\ UNCHANGED <<env, outside, metrics, params,
                   arrays, i, integral_error, integral_before, lab>>

InitQ2Skipped ==
    /\ pc = "init_Q2"
    /\ pc' = "init_LED"
    /\ UNCHANGED <<env, outside, metrics, params, arrays, i, integral_error,
                   integral_before, lab, pending, events>>

\* lab.Q2(0)
InitQ2 ==
    /\ pc = "init_Q2"
    /\ DeviceCall("Q2", 67, -1, 0, "init_LED")
    /\ UNCHANGED <<env, outside, metrics, params,
                   arrays, i, integral_error, integral_before, lab>>

\* lab.LED(100)
InitLED ==
    /\ pc = "init_LED"
    /\ DeviceCall("LED", 68, -1, 100, "init_T1")
    /\ UNCHANGED <<env, outside, metrics, params,
                   arrays, i, integral_error, integral_before, lab>>

\* T1_initial = lab.T1
InitT1 ==
    /\ pc = "init_T1"
    /\ DeviceCall("T1", 70, -1, 0, "loop")
    /\ UNCHANGED <<env, outside, metrics, params,
                   arrays, i, integral_error, integral_before, lab>>

TimestampOneBased(k) == FMul(k + 1, delta_t)
\* t[i] = i * delta_t
Timestamp(k) == FMul(k, delta_t)

\* for i in range(n): t[i] = i * delta_t
LoopHead ==
    /\ pc = "loop"
    /\ IF i < n
          THEN /\ t' = [t EXCEPT ![i] = Timestamp(i)]
               /\ pc' = "read"
          ELSE /\ t' = t
               /\ pc' = "report"
    /\ UNCHANGED <<env, outside, metrics, params,
                   T1, T_sp_array, Q1, i, integral_error,
                   integral_before, lab, pending, events>>

\* T1[i] = lab.T1 ... Q1[i] = np.clip(OP, 0.0, 100.0)
ReadAndCompute ==
    /\ pc = "read"
    /\ \/ \E measured \in sensor :
            LET e == Error(T_sp, measured) IN
            /\ events' = Append(events, Event("T1", 85, i, measured, TRUE))
            /\ T1' = [T1 EXCEPT ![i] = measured]
            /\ T_sp_array' = [T_sp_array EXCEPT ![i] = T_sp]
            /\ integral_before' = integral_error
            /\ integral_error' = Candidate(integral_error, e)
            /\ Q1' = [Q1 EXCEPT ![i] =
                        Clip(ControllerOutput(Kp, Ki, e, integral_error),
                             Q_min, Q_max)]
            /\ pc' = "actuate"
            /\ pending' = pending
       \/ /\ events' = Append(events, Event("T1", 85, i, 0, FALSE))
          /\ pc' = "except"
          /\ pending' = "Exception"
          /\ UNCHANGED <<T1, T_sp_array, Q1, integral_error, integral_before>>
    /\ UNCHANGED <<env, outside, metrics, params, t, i, lab>>

\* lab.Q1(Q1[i]) and the anti-windup correction
Actuate ==
    /\ pc = "actuate"
    /\ \E ok \in BOOLEAN :
        /\ events' = Append(events, Event("Q1", 107, i, Q1[i], ok))
        /\ IF ok
              THEN /\ integral_error' =
                        AntiWindup(Q1[i], integral_error,
                                   Error(T_sp, T1[i]))
                   /\ pc' = "render"
                   /\ pending' = pending
              ELSE /\ integral_error' = integral_error
                   /\ pc' = "except"
                   /\ pending' = "Exception"
    /\ UNCHANGED <<env, outside, metrics, params,
                   arrays, i, integral_before, lab>>

\* plot update, plt.pause(0.05), time.sleep(delta_t - 0.05)
RenderAndSleep ==
    /\ pc = "render"
    /\ \/ \E work \in workload :
            /\ timing' = [set |-> TRUE, work |-> work,
                          sleep |-> SleepRequest,
                          period |-> work + PauseTicks + SleepRequest]
            /\ i' = i + 1
            /\ pc' = "loop"
            /\ pending' = pending
       \/ /\ timing' = timing
          /\ i' = i
          /\ pc' = "except"
          /\ pending' = "Exception"
    /\ UNCHANGED <<env, outside, steadystate_error, params, arrays,
                   integral_error, integral_before, lab, events>>

\* last_10avg = np.mean(T1[-10:]) ... print(f"\nRun complete. ...")
Report ==
    /\ pc = "report"
    /\ steadystate_error' = SteadyStateError(T_sp, T1, n)
    /\ events' = Append(events, Event("print_complete", 130, -1, 0, TRUE))
    /\ pc' = "finally"
    /\ UNCHANGED <<env, outside, timing, params, arrays, i, integral_error,
                   integral_before, lab, pending>>

\* except Exception as e: print(f"\nAn error occurred during execution: {e}")
Except ==
    /\ pc = "except"
    /\ events' = Append(events, Event("print_error", 133, -1, 0, TRUE))
    /\ pending' = "none"
    /\ pc' = ExceptTarget
    /\ UNCHANGED <<env, outside, metrics, params,
                   arrays, i, integral_error, integral_before, lab>>

TryPositions ==
    {"connect", "init_Q1", "init_Q2", "init_LED", "init_T1",
     "loop", "read", "actuate", "render", "report", "except"}

\* a KeyboardInterrupt delivered inside the try statement
Interrupt ==
    /\ pc \in TryPositions
    /\ pending' = "KeyboardInterrupt"
    /\ pc' = InterruptTarget
    /\ UNCHANGED <<env, outside, metrics, params,
                   arrays, i, integral_error, integral_before, lab,
                   events>>

\* finally: if lab is not None: try: lab.Q1(0) ... except: pass
Shutdown ==
    /\ pc = "finally"
    /\ IF LabIsNotNone(lab)
          THEN \E ok \in BOOLEAN :
                  /\ events' = Append(events, Event("Q1", 140, -1, 0, ok))
                  /\ pc' = IF ok THEN "close" ELSE "done"
          ELSE /\ events' = events
               /\ pc' = "done"
    /\ UNCHANGED <<env, outside, metrics, params,
                   arrays, i, integral_error, integral_before, lab,
                   pending>>

\* lab.close() ... except: pass
Close ==
    /\ pc = "close"
    /\ \E ok \in BOOLEAN :
        events' = Append(events, Event("close", 141, -1, 0, ok))
    /\ pc' = "done"
    /\ UNCHANGED <<env, outside, metrics, params,
                   arrays, i, integral_error, integral_before, lab,
                   pending>>

Next ==
    \/ Connect
    \/ InitQ1
    \/ InitQ2
    \/ InitLED
    \/ InitT1
    \/ LoopHead
    \/ ReadAndCompute
    \/ Actuate
    \/ RenderAndSleep
    \/ Report
    \/ Except
    \/ Interrupt
    \/ Shutdown
    \/ Close

Spec == Init /\ [][Next]_vars

\* Runs long enough for T1[-10:] to be a proper part of T1, next to a short
\* run; one gain setting, two temperatures, one workload.
InitLong ==
    /\ duration \in {3, LongDuration}
    /\ T_sp = 30
    /\ Kp = 2
    /\ Ki = 0
    /\ n = NumCycles(duration)
    /\ t = Zeros(n)
    /\ T1 = Zeros(n)
    /\ T_sp_array = Zeros(n)
    /\ Q1 = Zeros(n)
    /\ integral_error = 0
    /\ integral_before = 0
    /\ i = 0
    /\ lab = "None"
    /\ pending = "none"
    /\ events = << >>
    /\ sensor = {20, 25}
    /\ workload = {2}
    /\ timing = NoTiming
    /\ steadystate_error = NoSteadyState
    /\ entered = NoEntry
    /\ accepted = << >>
    /\ calls = 0
    /\ frozen = FALSE
    /\ slept = 0
    /\ pc = "connect"

SpecLong == InitLong /\ [][Next]_vars

\* ------------------------------------------------- console entry (__main__)
\* An answer typed at a prompt: a numeric literal a, a text that float()
\* rejects, "a/b" with numeric a and b, or a text with '/' whose parts are
\* not two numerals.
Number(a) == [kind |-> "number", a |-> a, b |-> 0]
Text == [kind |-> "text", a |-> 0, b |-> 0]
Fraction(a, b) == [kind |-> "fraction", a |-> a, b |-> b]
BadFraction == [kind |-> "badfraction", a |-> 0, b |-> 0]

DurationAnswers == {Number(-2), Number(0), Number(4), Text, Fraction(4, 2)}
SetpointAnswers == {Number(30), Text}
KpAnswers == {Number(2), Text, Fraction(4, 2)}
KiAnswers == {Number(0), Text, Fraction(2, 2), Fraction(1, 0), BadFraction}

Entry(prompt, ans) ==
    [prompt |-> prompt, kind |-> ans.kind, a |-> ans.a, b |-> ans.b]

\* float(s): the value, or ValueError for anything but a numeric literal
FloatRaises(ans) == ans.kind # "number"

\* num / den of two floats (the answers offered have exact quotients)
FDiv(a, b) == RoundNearestEven(a \div b)

run_vars == <<i, integral_error, integral_before, lab, pending, events,
              env, metrics, frozen, slept>>

\* 1. Input Duration
AskDuration ==
    /\ pc = "ask_duration"
    /\ \E ans \in DurationAnswers :
        /\ entered' = Entry("duration", ans)
        /\ IF FloatRaises(ans) \/ ans.a <= 0
              THEN UNCHANGED <<pc, duration, accepted>>
              ELSE /\ duration' = ans.a
                   /\ accepted' = Append(accepted, "duration")
                   /\ pc' = "ask_setpoint"
    /\ UNCHANGED <<run_vars, arrays, T_sp, Kp, Ki, n, calls>>

\* 2. Input Setpoint
AskSetpoint ==
    /\ pc = "ask_setpoint"
    /\ \E ans \in SetpointAnswers :
        /\ entered' = Entry("setpoint", ans)
        /\ IF FloatRaises(ans)
              THEN UNCHANGED <<pc, T_sp, accepted>>
              ELSE /\ T_sp' = ans.a
                   /\ accepted' = Append(accepted, "setpoint")
                   /\ pc' = "ask_kp"
    /\ UNCHANGED <<run_vars, arrays, duration, Kp, Ki, n, calls>>

\* 3. Input Kp
AskKp ==
    /\ pc = "ask_kp"
    /\ \E ans \in KpAnswers :
        /\ entered' = Entry("kp", ans)
        /\ IF FloatRaises(ans)
              THEN UNCHANGED <<pc, Kp, accepted>>
              ELSE /\ Kp' = ans.a
                   /\ accepted' = Append(accepted, "kp")
                   /\ pc' = "ask_ki"
    /\ UNCHANGED <<run_vars, arrays, duration, T_sp, Ki, n, calls>>

\* 4. Input Ki: a float, or num/den when the answer contains '/'
AskKi ==
    /\ pc = "ask_ki"
    /\ \E ans \in KiAnswers :
        /\ entered' = Entry("ki", ans)
        /\ CASE ans.kind = "fraction" /\ ans.b = 0 ->
                  \* ZeroDivisionError is not a ValueError: it leaves the loop
                  /\ pc' = "crashed"
                  /\ pending' = "ZeroDivisionError"
                  /\ UNCHANGED <<Ki, accepted>>
             [] ans.kind = "fraction" /\ ans.b # 0 ->
                  /\ Ki' = FDiv(ans.a, ans.b)
                  /\ accepted' = Append(accepted, "ki")
                  /\ pc' = "call"
                  /\ pending' = pending
             [] ans.kind = "number" ->
                  /\ Ki' = ans.a
                  /\ accepted' = Append(accepted, "ki")
                  /\ pc' = "call"
                  /\ pending' = pending
             [] OTHER ->
                  UNCHANGED <<pc, pending, Ki, accepted>>
    /\ UNCHANGED <<i, integral_error, integral_before, lab, events, env,
                   metrics, frozen, slept, arrays, duration, T_sp, Kp, n,
                   calls>>

\* run_pi_controller(duration_val, tsp_val, kp_val, ki_val), up to `try`
CallRunPI ==
    /\ pc = "call"
    /\ calls' = calls + 1
    /\ n' = NumCycles(duration)
    /\ t' = Zeros(NumCycles(duration))
    /\ T1' = Zeros(NumCycles(duration))
    /\ T_sp_array' = Zeros(NumCycles(duration))
    /\ Q1' = Zeros(NumCycles(duration))
    /\ integral_error' = 0
    /\ lab' = "None"
    /\ pc' = "connect"
    /\ UNCHANGED <<i, integral_before, pending, events, env, metrics, frozen,
                   slept, duration, T_sp, Kp, Ki, entered, accepted>>

\* the script starts at its first prompt, nothing entered yet
InitMain ==
    /\ duration = 0
    /\ T_sp = 0
    /\ Kp = 0
    /\ Ki = 0
    /\ n = 0
    /\ t = Zeros(0)
    /\ T1 = Zeros(0)
    /\ T_sp_array = Zeros(0)
    /\ Q1 = Zeros(0)
    /\ integral_error = 0
    /\ integral_before = 0
    /\ i = 0
    /\ lab = "None"
    /\ pending = "none"
    /\ events = << >>
    /\ sensor = Readings
    /\ workload = WorkTicks
    /\ timing = NoTiming
    /\ steadystate_error = NoSteadyState
    /\ entered = NoEntry
    /\ accepted = << >>
    /\ calls = 0
    /\ frozen = FALSE
    /\ slept = 0
    /\ pc = "ask_duration"

NextMain ==
    \/ AskDuration
    \/ AskSetpoint
    \/ AskKp
    \/ AskKi
    \/ CallRunPI
    \/ Next

SpecMain == InitMain /\ [][NextMain]_vars

\* ------------------------------------------- src/tclab_led_test.py (script)
\* time.sleep(10.0), in seconds
SleepSeconds == 10

led_fixed == <<params, arrays, i, integral_error, integral_before, env,
               metrics, entered, accepted, calls, frozen>>

\* a device call of the script at line `at`: it returns or raises
LedCall(op, at, arg, next) ==
    \E ok \in BOOLEAN :
        /\ events' = Append(events, Event(op, at, -1, arg, ok))
        /\ IF ok THEN pc' = next /\ pending' = pending
                 ELSE pc' = "led_except" /\ pending' = "Exception"

\* a = tclab.TCLab(): a connected object, an unconnected one, or an error
LedConnect ==
    /\ pc = "led_connect"
    /\ \/ /\ events' = Append(events, Event("connect", 15, -1, 0, TRUE))
          /\ lab' \in {"TCLab", "TCLabNotConnected"}
          /\ pc' = "led_check"
          /\ pending' = pending
       \/ /\ events' = Append(events, Event("connect", 15, -1, 0, FALSE))
          /\ lab' = lab
          /\ pc' = "led_except"
          /\ pending' = "Exception"
    /\ UNCHANGED <<led_fixed, slept>>

\* if a.connected: ... else: print('Error: Could not find or connect ...')
LedCheck ==
    /\ pc = "led_check"
    /\ IF lab = "TCLab"
          THEN /\ pc' = "led_on"
               /\ events' = events
          ELSE /\ pc' = "led_end"
               /\ events' = Append(events,
                                   Event("print_notfound", 37, -1, 0, TRUE))
    /\ UNCHANGED <<led_fixed, slept, lab, pending>>

\* a.LED(100)
LedOn ==
    /\ pc = "led_on"
    /\ LedCall("LED", 23, 100, "led_sleep")
    /\ UNCHANGED <<led_fixed, slept, lab>>

\* time.sleep(10.0), one tick of the clock at a time
LedSleep ==
    /\ pc = "led_sleep"
    /\ IF slept < SleepSeconds * TicksPerSecond
          THEN slept' = slept + 1 /\ pc' = pc
          ELSE slept' = slept /\ pc' = "led_off"
    /\ UNCHANGED <<led_fixed, lab, pending, events>>

LedOffSkipped ==
    /\ pc = "led_off"
    /\ pc' = "led_close"
    /\ UNCHANGED <<led_fixed, slept, lab, pending, events>>

\* a.LED(0)
LedOff ==
    /\ pc = "led_off"
    /\ LedCall("LED", 31, 0, "led_close")
    /\ UNCHANGED <<led_fixed, slept, lab>>

\* a.close(); print('Connection closed. Script finished.')
LedClose ==
    /\ pc = "led_close"
    /\ LedCall("close", 34, 0, "led_end")
    /\ UNCHANGED <<led_fixed, slept, lab>>

\* except Exception as e: print(error_message); if frozen: wait for Enter
LedExcept ==
    /\ pc = "led_except"
    /\ events' = Append(events, Event("print_error", 42, -1, 0, TRUE))
    /\ pending' = "none"
    /\ pc' = IF frozen THEN "led_wait" ELSE "led_end"
    /\ UNCHANGED <<led_fixed, slept, lab>>

\* input("\nPress Enter to exit and close this window...")
LedWait ==
    /\ pc = "led_wait"
    /\ pc' = "led_end"
    /\ UNCHANGED <<led_fixed, slept, lab, pending, events>>

LedTryPositions ==
    {"led_connect", "led_check", "led_on", "led_sleep", "led_off",
     "led_close"}

\* a KeyboardInterrupt inside the try statement is not an Exception: the
\* script ends with the traceback
LedInterrupt ==
    /\ pc \in LedTryPositions
    /\ pending' = "KeyboardInterrupt"
    /\ pc' = "led_end"
    /\ UNCHANGED <<led_fixed, slept, lab, events>>

InitLed ==
    /\ duration = 0
    /\ T_sp = 0
    /\ Kp = 0
    /\ Ki = 0
    /\ n = 0
    /\ t = Zeros(0)
    /\ T1 = Zeros(0)
    /\ T_sp_array = Zeros(0)
    /\ Q1 = Zeros(0)
    /\ integral_error = 0
    /\ integral_before = 0
    /\ i = 0
    /\ lab = "None"
    /\ pending = "none"
    /\ events = << >>
    /\ sensor = {}
    /\ workload = {}
    /\ timing = NoTiming
    /\ steadystate_error = NoSteadyState
    /\ entered = NoEntry
    /\ accepted = << >>
    /\ calls = 0
    /\ frozen \in BOOLEAN
    /\ slept = 0
    /\ pc = "led_connect"

NextLed ==
    \/ LedConnect
    \/ LedCheck
    \/ LedOn
    \/ LedSleep
    \/ LedOff
    \/ LedClose
    \/ LedExcept
    \/ LedWait
    \/ LedInterrupt

SpecLed == InitLed /\ [][NextLed]_vars

\* ------------------------------------------------------------ properties
Idx == 1 .. Len(events)

\* positions of the calls issued at source line `at`
At(line) == {s \in Idx : events[s].at = line}

Saturated(q) == ~(0 < q /\ q < 100)

\* C1: every output recorded in Q1 and every value sent to the heater with
\* lab.Q1 lies in [0.0, 100.0].
C1_OutputInRange ==
    /\ \A k \in DOMAIN Q1 : 0 <= Q1[k] /\ Q1[k] <= 100
    /\ \A s \in Idx : events[s].op = "Q1" =>
                        0 <= events[s].arg /\ events[s].arg <= 100

\* a cycle whose raw output exceeded 100 was sent to the heater as 100
C1_Witness ==
    /\ pc = "render"
    /\ ControllerOutput(Kp, Ki, Error(T_sp, T1[i]), integral_before) > 100
    /\ \E s \in At(107) : events[s].cyc = i /\ events[s].arg = 100

\* C2: in a cycle whose clamped output is 0.0 or 100.0, integral_error
\* after the cycle equals integral_error before the cycle.
C2_FreezeIsExact ==
    (pc = "render" /\ Saturated(Q1[i])) => integral_error = integral_before

\* C3: in a cycle whose output is strictly between 0 and 100,
\* integral_error after the cycle is integral_error before the cycle plus
\* error * samplePeriod, with error = setpoint - measured and
\* samplePeriod = 2.
C3_IntegralCommit ==
    (pc = "render" /\ ~Saturated(Q1[i])) =>
        integral_error = FAdd(integral_before, FMul(FSub(T_sp, T1[i]), 2))

\* an unsaturated cycle that moved the integral
C3_Witness ==
    /\ pc = "render"
    /\ ~Saturated(Q1[i])
    /\ i >= 1
    /\ integral_before # 0
    /\ integral_error # integral_before

\* C4: the output of every cycle is
\* clamp(bias + Kp*error + Ki*(integral_before + error*samplePeriod), 0, 100)
\* with bias = 0, committed or not; with Kp=2, Ki=0, setpoint 30 and
\* measured 25 it is 10.
C4_OutputFormula ==
    pc \in {"actuate", "render"} =>
        LET e    == FSub(T_sp, T1[i])
            cand == FAdd(integral_before, FMul(e, 2))
            raw  == FAdd(FAdd(0, FMul(Kp, e)), FMul(Ki, cand))
        IN  /\ Q1[i] = (IF raw < 0 THEN 0 ELSE IF raw > 100 THEN 100 ELSE raw)
            /\ (Kp = 2 /\ Ki = 0 /\ T_sp = 30 /\ T1[i] = 25) => Q1[i] = 10

\* a later cycle with a non-zero integral gain and a non-zero integral
C4_Witness ==
    /\ pc = "render"
    /\ i >= 1
    /\ Ki # 0
    /\ integral_before # 0
    /\ ~Saturated(Q1[i])
    /\ Q1[i] # FAdd(FMul(Kp, FSub(T_sp, T1[i])), FMul(Ki, integral_before))

\* C5: once connected, every exit of run_pi_controller (completion, error,
\* interrupt) issues the shutdown command lab.Q1(0) of the finally block;
\* it is the last heater command, and no close precedes it.
C5_ExitsThroughDraining ==
    (pc = "done" /\ lab # "None") =>
        \E s \in At(140) :
            /\ events[s].op = "Q1" /\ events[s].arg = 0
            /\ \A j \in Idx : j > s => events[j].op = "close"
            /\ \A j \in Idx : j < s => events[j].op # "close"

\* an interrupted run that had been heating ended with the shutdown command
C5_Witness ==
    /\ pc = "done"
    /\ pending = "KeyboardInterrupt"
    /\ \E s \in At(107) : events[s].arg > 0 /\ events[s].ok
    /\ At(140) # {}

\* C6: the connection acquired by run_pi_controller is released (lab.close()
\* is called) on every exit path, also when lab.Q1(0) of the shutdown fails.
C6_AlwaysClosed ==
    (pc = "done" /\ lab # "None") => \E s \in Idx : events[s].op = "close"

\* C7 (as stated): the error report never precedes the shutdown command and
\* the close.
C7_ReportAfterDraining ==
    \A s \in Idx :
        (events[s].op = "print_error" /\ lab # "None") =>
            \E j \in At(140) : j < s

\* C7 (amended): an Exception raised after the connect is reported first;
\* the shutdown command lab.Q1(0) follows the report, close() comes after
\* that command when it is called, and the Exception does not reach the
\* caller.
C7_DrainingAfterReport ==
    /\ \A s \in Idx :
        events[s].op = "print_error" =>
            /\ \A j \in At(140) \cup At(141) : j > s
            /\ (pc = "done" /\ lab # "None") => At(140) # {}
            /\ \A j \in At(141) : \E h \in At(140) : h < j
    /\ pc = "done" => pending # "Exception"

\* a run that failed in the loop, reported, shut the heater down and closed
C7_Witness ==
    /\ pc = "done"
    /\ lab # "None"
    /\ \E s \in Idx : events[s].op = "print_error"
    /\ \E s \in Idx : ~events[s].ok /\ events[s].cyc >= 0
    /\ At(141) # {}

\* C8: if the sensor read fails in cycle k, no later cycle runs, the only
\* heater command issued afterwards is the shutdown command 0, and no field
\* of the cycle-k sample, not even its timestamp, is recorded.
C8_NothingRecordedForFailedCycle ==
    \A s \in At(85) :
        ~events[s].ok =>
            LET k == events[s].cyc IN
            /\ i = k
            /\ \A j \in Idx : j > s => events[j].cyc = -1
            /\ \A j \in Idx : (j > s /\ events[j].op = "Q1") =>
                                (events[j].at = 140 /\ events[j].arg = 0)
            /\ t[k] = 0 /\ T1[k] = 0 /\ T_sp_array[k] = 0 /\ Q1[k] = 0

\* C9: if connecting fails, no control cycle executes and no sensor read,
\* heater command, indicator command or close is issued on the device.
C9_ConnectFailureAborts ==
    (Len(events) >= 1 /\ events[1].op = "connect" /\ ~events[1].ok) =>
        /\ lab = "None"
        /\ pc \in {"except", "finally", "done"}
        /\ i = 0
        /\ \A s \in Idx : s > 1 => events[s].op = "print_error"
        /\ t = Zeros(n) /\ T1 = Zeros(n) /\ Q1 = Zeros(n)

\* a run whose connect failed has ended, having reported the error
C9_Witness ==
    /\ pc = "done"
    /\ lab = "None"
    /\ Len(events) = 2
    /\ ~events[1].ok
    /\ events[2].op = "print_error"
    /\ n >= 1

NoFault ==
    /\ pc = "done"
    /\ pending = "none"
    /\ \A s \in Idx : events[s].ok /\ events[s].op # "print_error"

\* C10: a run that meets no fault executes exactly n = floor(duration / 2)
\* cycles and fills n samples; each cycle reads the sensor once and then
\* commands the heater once; for 0 < duration < 2 no cycle runs.
C10_CycleCount ==
    NoFault =>
        /\ i = n
        /\ n * 2 <= duration /\ duration < (n + 1) * 2
        /\ DOMAIN T1 = 0 .. n - 1 /\ DOMAIN Q1 = 0 .. n - 1
        /\ DOMAIN t = 0 .. n - 1
        /\ \A c \in 0 .. n - 1 :
            /\ Cardinality({s \in At(85) : events[s].cyc = c}) = 1
            /\ Cardinality({s \in At(107) : events[s].cyc = c}) = 1
            /\ \A r \in At(85) : \A w \in At(107) :
                 (events[r].cyc = c /\ events[w].cyc = c) => r < w
            /\ T_sp_array[c] = T_sp
        /\ \A s \in Idx : events[s].cyc \in -1 .. n - 1
        /\ duration < 2 => At(85) \cup At(107) = {}

\* a fault-free run of duration 5 ran two cycles
C10_Witness ==
    /\ NoFault
    /\ duration = 5
    /\ Cardinality(At(85)) = 2
    /\ Cardinality(At(107)) = 2

C12_SleepCompensatesProcessing ==
    timing.set =>
        LET processing == timing.work + 1
            period     == 2 * 20
        IN  /\ timing.sleep =
                 (IF processing > period THEN 0 ELSE period - processing)
            /\ timing.sleep >= 0
            /\ processing <= period => timing.period = period

RECURSIVE SumLast(_, _, _)
\* f[len - k] + ... + f[len - 1]
SumLast(f, len, k) ==
    IF k = 0 THEN 0 ELSE f[len - k] + SumLast(f, len, k - 1)

\* C14: the steady-state error reported after all n cycles is setpoint minus
\* the mean of the last k measured temperatures, k = 10 when n >= 10 and
\* k = n when n < 10; it is reported only after the last cycle of a run
\* that met no fault, and no controller output follows it.
C14_SteadyStateError ==
    /\ steadystate_error.set <=>
          (\E s \in Idx : events[s].op = "print_complete")
    /\ steadystate_error.set =>
        LET k == IF n >= 10 THEN 10 ELSE n IN
        /\ steadystate_error.den = k
        /\ steadystate_error.num = k * T_sp - SumLast(T1, n, k)
        /\ i = n
        /\ Cardinality(At(107)) = n
        /\ \A s \in Idx : events[s].op = "print_complete" =>
            /\ \A j \in Idx : j < s =>
                 (events[j].ok /\ events[j].op # "print_error")
            /\ \A j \in Idx : j > s =>
                 (events[j].at \in {140, 141} /\ events[j].arg = 0)

\* an eleven-cycle run whose first reading differs from the last ten
C14_Witness ==
    /\ pc = "done"
    /\ n = 11
    /\ steadystate_error.set
    /\ T1[0] = 20
    /\ \A k \in 1 .. 10 : T1[k] = 25
    /\ steadystate_error.num = 50
    /\ steadystate_error.den = 10

\* C15: after a successful connect, heater 1 and then heater 2 are commanded
\* to 0 before the first sensor read and before any controller output;
\* heater 2 is never commanded a non-zero value.
C15_SafeStart ==
    /\ \A s \in Idx : events[s].op = "Q2" => events[s].arg = 0
    /\ \A s \in Idx :
        (events[s].op = "T1" \/ events[s].at = 107) =>
            \E a \in At(66) : \E b \in At(67) :
                /\ a < b /\ b < s
                /\ events[a].op = "Q1" /\ events[a].arg = 0 /\ events[a].ok
                /\ events[b].op = "Q2" /\ events[b].ok

\* a run that is heating, after both heaters were commanded to 0
C15_Witness ==
    /\ pc = "render"
    /\ Q1[i] > 0
    /\ \E s \in At(107) : events[s].ok /\ events[s].arg > 0
    /\ At(66) # {} /\ At(67) # {}

\* an answer the prompt must reject: not a number, a duration that is not
\* positive, or for Ki an "a/b" that is malformed or has a zero denominator
InvalidEntry(e) ==
    \/ e.kind \in {"text", "badfraction"}
    \/ e.kind = "fraction" /\ e.prompt # "ki"
    \/ e.kind = "fraction" /\ e.prompt = "ki" /\ e.b = 0
    \/ e.kind = "number" /\ e.prompt = "duration" /\ e.a <= 0

PromptOf(pos) ==
    CASE pos = "ask_duration" -> "duration"
      [] pos = "ask_setpoint" -> "setpoint"
      [] pos = "ask_kp" -> "kp"
      [] pos = "ask_ki" -> "ki"
      [] OTHER -> "none"

\* C13: every invalid answer (non-numeric, non-positive duration, malformed
\* or zero-denominator "a/b" for Ki) makes the same prompt come again and
\* never ends the entry; run_pi_controller is called exactly once, after all
\* four values were accepted, with duration > 0.
C13_RepromptOnInvalidInput ==
    /\ pc # "crashed"
    /\ InvalidEntry(entered) => PromptOf(pc) = entered.prompt
    /\ calls <= 1
    /\ calls = 1 =>
          (accepted = <<"duration", "setpoint", "kp", "ki">> /\ duration > 0)
    /\ (PromptOf(pc) = "none" /\ pc # "call") => calls = 1

\* the calls of the LED script issued so far, by source line
LedOnAt == At(23)
LedOffAt == At(31)
LedCloseAt == At(34)

\* C16 (as stated): whenever the connection was established the script has,
\* at its end, issued LED(100), LED(0) and close() in that order, the LED is
\* off and the connection closed, also when a device call raised.
C16_AlwaysOffAndClosed ==
    (pc = "led_end" /\ lab = "TCLab" /\ pending = "none") =>
        \E a \in LedOnAt : \E b \in LedOffAt : \E c \in LedCloseAt :
            /\ a < b /\ b < c
            /\ events[b].ok /\ events[c].ok

\* C16 (amended): LED(100), LED(0) and close() are issued in that order, each
\* only after the previous one returned; a run in which no call raises and no
\* interrupt arrives issues all three, while a call that raises is followed
\* by the error report only, with the remaining calls never issued.
C16_LifecycleWithoutFault ==
    /\ \A b \in LedOffAt : \E a \in LedOnAt : a < b /\ events[a].ok
    /\ \A c \in LedCloseAt : \E b \in LedOffAt : b < c /\ events[b].ok
    /\ \A b \in LedOffAt : slept = 10 * 20
    /\ \A s \in Idx : ~events[s].ok =>
          \A j \in Idx : j > s => events[j].op = "print_error"
    /\ (/\ pc = "led_end"
        /\ lab = "TCLab"
        /\ pending = "none"
        /\ \A s \in Idx : events[s].ok /\ events[s].op # "print_error") =>
            /\ LedOnAt # {} /\ LedOffAt # {} /\ LedCloseAt # {}
            /\ events[Len(events)].op = "close"

\* the script ended after LED(0) raised: the LED is on, the port is open
C16_Witness ==
    /\ pc = "led_end"
    /\ \E a \in LedOnAt : events[a].ok
    /\ \E b \in LedOffAt : ~events[b].ok
    /\ LedCloseAt = {}

====
